---- MODULE Spec2Model ----
(***************************************************************************)
(* opengig: the notification queue (notifications table), the saved       *)
(* searches (saved_searches table, save_search / run_saved_search tools)  *)
(* and the send-notifications edge function that drains the queue through *)
(* the Resend transport; the listings table, the search tools over it and *)
(* the match edge function (candidate fetch, rankWithAI, keywordMatch);    *)
(* the listing tools (create_listing, renew_listing, deactivate_listing), *)
(* send_message over the conversations and messages tables, and the      *)
(* check_expiring_listings() function of the database.                    *)
(*                                                                         *)
(* Every `await` of the edge function is one step of an invocation, so    *)
(* that two invocations of the function can interleave exactly where the  *)
(* JavaScript can.                                                        *)
(***************************************************************************)
EXTENDS Integers, Sequences, FiniteSets, TLC

\* ---------------------------------------------------------------- bounds
MaxUsers == 2
MaxNotifs == 2
MaxTime == 2
MaxInvocations == 2
MaxSearches == 2
MaxSearchRuns == 2
\* rows of the listings table when a match request is ranked
MaxListings == 11
\* rows of the listings table when the search tools are run
MaxStored == 2
\* rows whose every order is considered when a select has no .order()
MaxShuffled == 3
\* send_message calls in progress or finished
MaxCalls == 2
\* check_expiring_listings calls in progress or finished
MaxChecks == 3
\* the last day of the clock when listings are watched for their expiry
MaxDay == 9

\* ------------------------------------------------------ program constants
\* .limit(50) of the pending fetch
BatchLimit == 50
\* .limit(50) of the candidate fetch of the match function
CandidateLimit == 50
\* .limit(20) of search_listings and run_saved_search
SearchLimit == 20
\* .slice(0, 10) of keywordMatch
TopK == 10
\* expiresAt.setDate(expiresAt.getDate() + 30) of create_listing and
\* renew_listing, in days
ListingDays == 30
\* INTERVAL '7 days' of check_expiring_listings, in days
ExpiringDays == 7

Users == 1..MaxUsers
\* the invocations of send-notifications, in the order they start
Invocations == 1..MaxInvocations
SearchIds == 1..MaxSearches
ListingIds == {1}
\* the calls of send_message
Calls == 1..MaxCalls
\* the calls of check_expiring_listings
Checks == 1..MaxChecks

\* users.email is a nullable TEXT: NULL and '' are both falsy in `!user?.email`
NoEmail == ""
Emails == {NoEmail, "a@x"}

\* sent_at / last_checked_at value of a NULL timestamp
NULL == 0

\* rate_min / rate_max INTEGER of a row without the bound (NULL), and of
\* params without it (undefined): 0 is a rate
NoRate == -1

\* location TEXT of a row or of params without one. NULL, undefined and ''
\* are told apart nowhere: all three are falsy in `if (savedSearch.location)`
\* and a listing with any of them fails ilike '%loc%' for every loc tested.
NoLocation == <<>>

\* type TEXT NOT NULL CHECK (type IN (...))
NotificationTypes == {"new_match", "message_received", "listing_expiring", "contact_shared"}

VARIABLES
    now,            \* the clock (NOW(), new Date())
    users,          \* users table: id -> email
    notifications,  \* notifications table: sequence of rows, id = position
    saved_searches, \* saved_searches table: sequence of rows, id = position
    search_runs,    \* saved search id -> completed run_saved_search calls
    pc,             \* per invocation of send-notifications: where it is
    batch,          \* per invocation: `notifications` (ids of the fetched rows)
    userMap,        \* per invocation: `userMap` (user id -> email as fetched)
    idx,            \* per invocation: position of the for-loop in batch
    sent,           \* per invocation: `sent`
    errors,         \* per invocation: `errors`
    calls,          \* per invocation: requests made to api.resend.com/emails
    response,       \* per invocation: the Response returned
    delivered,      \* transport: notification id -> emails accepted by Resend
    listings,       \* listings table: sequence of rows, id = position
    results,        \* MCP tools: the listings the last call returned
    query,          \* match request: `query` of the request body
    ANTHROPIC_API_KEY, \* match function: whether the key is configured
    mpc,            \* match request: where the handler is
    candidates,     \* match request: `listings` (the rows fetched for ranking)
    answer,         \* match request: what api.anthropic.com answered
    matches,        \* match request: what rankWithAI returned or threw
    conversations,  \* conversations table: sequence of rows, id = position
    messages,       \* messages table: sequence of rows, id = position
    send,           \* per send_message call: where it is and what it holds
    checks,         \* per check_expiring_listings call: its statement
    reply,          \* MCP tools: what the last call answered
    listed          \* MCP tools: the saved searches the last call returned

vars == <<now, users, notifications, saved_searches, search_runs, pc, batch, userMap, idx,
          sent, errors, calls, response, delivered, listings, results, query,
          ANTHROPIC_API_KEY, mpc, candidates, answer, matches, conversations,
          messages, send, checks, reply, listed>>

searchVars == <<saved_searches, search_runs>>

dispatcherVars == <<pc, batch, userMap, idx, sent, errors, calls, response,
                    delivered>>

listingVars == <<listings, results>>

matchVars == <<query, ANTHROPIC_API_KEY, mpc, candidates, answer, matches>>

callVars == <<conversations, messages, send, checks>>

toolVars == <<callVars, reply, listed>>

NoResponse == [status |-> 0, sent |-> 0, errors |-> <<>>]

\* no request made to api.anthropic.com
NoAnswer == [kind |-> "none", matches |-> <<>>]

\* what the caller of rankWithAI gets: a list, or an exception
Return(list) == [threw |-> FALSE, value |-> list]

Throw == [threw |-> TRUE, value |-> <<>>]

\* a send_message call not made yet
NoCall == [pc |-> "idle", sender_id |-> 0, recipient_id |-> 0,
           conversation_id |-> 0, result |-> "none"]

\* a check_expiring_listings call not made yet
NoCheck == [pc |-> "idle", started |-> 0, rows |-> {}]

InitTools ==
    /\ conversations = <<>>
    /\ messages = <<>>
    /\ send = [c \in Calls |-> NoCall]
    /\ checks = [i \in Checks |-> NoCheck]
    /\ reply = "none"
    /\ listed = <<>>

InitQueue ==
    /\ InitTools
    /\ now = 1
    /\ users = [u \in Users |-> NoEmail]
    /\ notifications = <<>>
    /\ saved_searches = <<>>
    /\ search_runs = [s \in SearchIds |-> 0]
    /\ pc = [r \in Invocations |-> "idle"]
    /\ batch = [r \in Invocations |-> <<>>]
    /\ userMap = [r \in Invocations |-> <<>>]
    /\ idx = [r \in Invocations |-> 1]
    /\ sent = [r \in Invocations |-> 0]
    /\ errors = [r \in Invocations |-> <<>>]
    /\ calls = [r \in Invocations |-> <<>>]
    /\ response = [r \in Invocations |-> NoResponse]
    /\ delivered = [n \in 1..MaxNotifs |-> 0]

\* no match request in progress
InitRequest ==
    /\ mpc = "idle"
    /\ candidates = <<>>
    /\ answer = NoAnswer
    /\ matches = Return(<<>>)
    /\ results = <<>>

Init ==
    /\ InitQueue
    /\ InitRequest
    /\ listings = <<>>
    /\ query = <<>>
    /\ ANTHROPIC_API_KEY = FALSE

\* ------------------------------------------------------------- the clock
Tick ==
    /\ now < MaxTime
    /\ now' = now + 1
    /\ UNCHANGED <<listingVars, matchVars, toolVars, users, notifications, searchVars, dispatcherVars>>

\* ------------------------------------------------------------ users table
\* handle_new_user: ON CONFLICT (id) DO UPDATE SET email = EXCLUDED.email
handle_new_user(u, e) ==
    /\ users[u] # e
    /\ users' = [users EXCEPT ![u] = e]
    /\ UNCHANGED <<listingVars, matchVars, toolVars, now, notifications, searchVars, dispatcherVars>>

\* ---------------------------------------------------- notifications table
\* A row as INSERT INTO notifications (user_id, type, title, body, metadata)
\* stores it: email_sent DEFAULT false, sent_at NULL, created_at DEFAULT NOW().
NewNotification(u, t, sq, l) ==
    [user_id |-> u, type |-> t, saved_query_id |-> sq, listing_id |-> l,
     email_sent |-> FALSE, sent_at |-> NULL, created_at |-> now]

\* The constraints of CREATE TABLE notifications: the PRIMARY KEY on id (a fresh
\* uuid per row), the foreign key on user_id and the CHECK on type. There is no
\* UNIQUE constraint or index over (user_id, metadata).
InsertAllowed(row) ==
    /\ row.user_id \in Users
    /\ row.type \in NotificationTypes

InsertNotification(u, t, sq, l) ==
    /\ Len(notifications) < MaxNotifs
    /\ InsertAllowed(NewNotification(u, t, sq, l))
    /\ notifications' = Append(notifications, NewNotification(u, t, sq, l))
    /\ UNCHANGED <<listingVars, matchVars, toolVars, now, users, searchVars, dispatcherVars>>

\* ------------------------------------------------------------------- text
\* Text is a sequence of characters.
UpperCase == <<"A", "B", "C", "D", "E", "F", "G", "H", "I", "J", "K", "L", "M", "N", "O", "P", "Q", "R", "S", "T", "U", "V", "W", "X", "Y", "Z">>
LowerCase == <<"a", "b", "c", "d", "e", "f", "g", "h", "i", "j", "k", "l", "m", "n", "o", "p", "q", "r", "s", "t", "u", "v", "w", "x", "y", "z">>

\* the lower-case letter of each upper-case letter
Lower ==
    [c \in {UpperCase[k] : k \in DOMAIN UpperCase} |->
        LowerCase[CHOOSE k \in DOMAIN UpperCase : UpperCase[k] = c]]

\* (mutant) a text left in the case it has
keepCase(s) == s

\* String.prototype.toLowerCase
toLowerCase(s) ==
    [i \in DOMAIN s |-> IF s[i] \in DOMAIN Lower THEN Lower[s[i]] ELSE s[i]]

\* \s
IsSpace(c) == c \in {" ", "\t", "\n"}

\* String.prototype.split(/\s+/): the pieces between runs of whitespace, an
\* empty piece before a leading and after a trailing run
RECURSIVE split(_)
split(s) ==
    IF \A i \in DOMAIN s : ~IsSpace(s[i]) THEN <<s>>
    ELSE LET i == CHOOSE i \in DOMAIN s :
                      IsSpace(s[i]) /\ \A k \in 1..(i - 1) : ~IsSpace(s[k])
             rest == {j \in (i + 1)..Len(s) : ~IsSpace(s[j])}
             j == IF rest = {} THEN Len(s) + 1
                  ELSE CHOOSE j \in rest : \A k \in rest : j <= k
         IN  <<SubSeq(s, 1, i - 1)>> \o split(SubSeq(s, j, Len(s)))

\* Array.prototype.join
RECURSIVE join(_, _)
join(parts, sep) ==
    IF parts = <<>> THEN <<>>
    ELSE IF Len(parts) = 1 THEN parts[1]
    ELSE parts[1] \o sep \o join(Tail(parts), sep)

\* String.prototype.includes
includes(text, word) ==
    \E i \in 0..(Len(text) - Len(word)) : SubSeq(text, i + 1, i + Len(word)) = word

\* --------------------------------------------------------- listings table
Min(a, b) == IF a < b THEN a ELSE b

\* type TEXT NOT NULL CHECK (type IN ('job', 'available'))
ListingTypes == {"job", "available"}

\* 'jobs' / 'talent' of a request -> listings.type
listingType(t) == IF t = "jobs" THEN "job" ELSE "available"

SearchTypes == {"jobs", "talent"}

\* .limit(n)
Limit(rows, n) == SubSeq(rows, 1, Min(Len(rows), n))

\* the ids of a set of rows by descending key, rows of equal key in id order
RECURSIVE Ordered(_, _)
Ordered(ids, key) ==
    IF ids = {} THEN <<>>
    ELSE LET first == CHOOSE a \in ids : \A b \in ids \ {a} :
                          key[a] > key[b] \/ (key[a] = key[b] /\ a < b)
         IN  <<first>> \o Ordered(ids \ {first}, key)

\* .order('created_at', { ascending: false })
CreatedDesc == [l \in DOMAIN listings |-> listings[l].created_at]

\* the order of the heap: the order the rows were inserted in
HeapOrder == [l \in DOMAIN listings |-> 0 - l]

Orders(ids) ==
    {o \in [1..Cardinality(ids) -> ids] :
        \A i, j \in DOMAIN o : i # j => o[i] # o[j]}

\* A select without .order(): the rows come in whatever order the store
\* produces them. Every order of up to MaxShuffled rows; of more rows, the
\* insertion order and the newest-first order.
Unordered(ids) ==
    IF Cardinality(ids) <= MaxShuffled
       THEN Orders(ids)
       ELSE {Ordered(ids, HeapOrder), Ordered(ids, CreatedDesc)}

\* .or(`expires_at.is.null,expires_at.gt.${new Date().toISOString()}`)
NotExpired(row) == row.expires_at = NULL \/ row.expires_at > now

\* search_listings and run_saved_search: .eq('type', listingType)
\* .eq('active', true).neq('user_id', user.id).or(expires_at ...)
Searchable(u, t) ==
    {l \in DOMAIN listings :
        /\ listings[l].type = listingType(t)
        /\ listings[l].active
        /\ listings[l].user_id # u
        /\ NotExpired(listings[l])}

\* ... .order('created_at', { ascending: false }).limit(20)
SearchRows(u, t) == Limit(Ordered(Searchable(u, t), CreatedDesc), SearchLimit)

\* search_listings with none of its optional filters set. scoreListings adds
\* hints to the rows and neither drops nor reorders them. A store error is
\* thrown and caught: the tool answers { error } and returns no row.
search_listings(u, t, listingsOk) ==
    /\ results' = IF listingsOk THEN SearchRows(u, t) ELSE <<>>
    /\ reply' = IF listingsOk THEN "success" ELSE "Failed to search listings"
    /\ listed' = <<>>
    /\ UNCHANGED <<now, users, notifications, searchVars, dispatcherVars,
                   listings, matchVars, callVars>>

\* --------------------------------------------------- saved_searches table
\* params of save_search with none of the optional filters
NoFilters ==
    [search_type |-> "jobs", skills_filter |-> <<>>, rate_min |-> NoRate,
     rate_max |-> NoRate, remote_only |-> FALSE, location |-> NoLocation]

\* params.skills_filter?.map((s) => s.toLowerCase()) || []
lowerSkills(skills) == [k \in DOMAIN skills |-> toLowerCase(skills[k])]

\* save_search: insert with active: true; last_checked_at and created_at
\* DEFAULT NOW(). Row-level security lets a user insert only their own rows.
save_search(u, params) ==
    /\ Len(saved_searches) < MaxSearches
    /\ saved_searches' = Append(saved_searches,
           [user_id |-> u, search_type |-> params.search_type,
            skills_filter |-> lowerSkills(params.skills_filter),
            rate_min |-> params.rate_min, rate_max |-> params.rate_max,
            remote_only |-> params.remote_only, location |-> params.location,
            active |-> TRUE, last_checked_at |-> now, created_at |-> now])
    /\ reply' = "success"
    /\ results' = <<>>
    /\ listed' = <<>>
    /\ UNCHANGED <<listings, matchVars, callVars, now, users, notifications,
                   search_runs, dispatcherVars>>

\* .order('created_at', { ascending: false }) of get_saved_searches
SavedDesc == [s \in DOMAIN saved_searches |-> saved_searches[s].created_at]

\* get_saved_searches: .eq('user_id', user.id).eq('active', true), newest first
get_saved_searches(u) ==
    /\ listed' = Ordered({s \in DOMAIN saved_searches :
                            /\ saved_searches[s].user_id = u
                            /\ saved_searches[s].active}, SavedDesc)
    /\ reply' = "success"
    /\ results' = <<>>
    /\ UNCHANGED <<listings, matchVars, callVars, now, users, notifications,
                   searchVars, dispatcherVars>>

\* (mutant) .eq('id', search_id) without .eq('user_id', user.id)
AnyUsers(u, s) == s \in DOMAIN saved_searches

\* .eq('id', params.search_id).eq('user_id', user.id): the row exists and is
\* the caller's
Owned(u, s) == s \in DOMAIN saved_searches /\ saved_searches[s].user_id = u

\* delete_saved_search: .update({ active: false }).eq('id', id).eq('user_id', u).
\* An update that matches no row is not an error: the tool reports success.
delete_saved_search(u, s) ==
    /\ saved_searches' = IF Owned(u, s)
                            THEN [saved_searches EXCEPT ![s].active = FALSE]
                            ELSE saved_searches
    /\ reply' = "success"
    /\ results' = <<>>
    /\ listed' = <<>>
    /\ UNCHANGED <<listings, matchVars, callVars, now, users, notifications,
                   search_runs, dispatcherVars>>

\* (mutant) run_saved_search inserting a new_match row for what it finds
RunSavedSearchNotifies(u, s) ==
    IF Len(notifications) < MaxNotifs
       THEN Append(notifications, NewNotification(u, "new_match", s, 1))
       ELSE notifications

\* the rows run_saved_search writes to the notifications table: none
RunSavedSearchNotifications(u, s) == notifications

\* `if (savedSearch.rate_min)`, `if (savedSearch.rate_max)`: null and 0 are
\* both falsy
RateSet(rate) == rate # NoRate /\ rate # 0

\* .overlaps('skills', skills_filter): the arrays share an element
overlaps(skills, filter) ==
    \E i \in DOMAIN skills, j \in DOMAIN filter : skills[i] = filter[j]

\* .ilike('location', `%${location}%`), for a location without % and _
ilike(column, location) == includes(toLowerCase(column), toLowerCase(location))

\* the optional filters run_saved_search adds to its query. .gte('rate_max', x)
\* and .lte('rate_min', x) are not true of a row whose column is NULL.
Filtered(search, row) ==
    /\ search.remote_only => row.remote
    /\ RateSet(search.rate_min) =>
          row.rate_max # NoRate /\ row.rate_max >= search.rate_min
    /\ RateSet(search.rate_max) =>
          row.rate_min # NoRate /\ row.rate_min <= search.rate_max
    /\ search.skills_filter # <<>> => overlaps(row.skills, search.skills_filter)
    /\ search.location # NoLocation => ilike(row.location, search.location)

\* the rows run_saved_search returns: the base query of search_listings, the
\* filters of the saved search, newest first, 20 rows
SavedSearchRows(u, search) ==
    Limit(Ordered({l \in Searchable(u, search.search_type) :
                      Filtered(search, listings[l])}, CreatedDesc), SearchLimit)

\* (mutant) the cursor cleared
Unchecked(search) == [search EXCEPT !.last_checked_at = NULL]

\* .update({ last_checked_at: new Date().toISOString() })
Checked(search) == [search EXCEPT !.last_checked_at = now]

\* run_saved_search: load the saved search of the caller (.eq('id') and
\* .eq('user_id').single(), whatever its active flag), query the listings,
\* then update last_checked_at. No row loaded answers 'Saved search not
\* found'; a listings error throws before the update.
run_saved_search(u, s, listingsOk) ==
    /\ IF ~Owned(u, s)
          THEN /\ reply' = "Saved search not found"
               /\ results' = <<>>
               /\ UNCHANGED <<saved_searches, search_runs, notifications>>
          ELSE /\ search_runs[s] < MaxSearchRuns
               /\ IF listingsOk
                     THEN /\ saved_searches' = [saved_searches EXCEPT ![s] = Checked(@)]
                          /\ search_runs' = [search_runs EXCEPT ![s] = @ + 1]
                          /\ notifications' = RunSavedSearchNotifications(u, s)
                          /\ results' = SavedSearchRows(u, saved_searches[s])
                          /\ reply' = "success"
                     ELSE /\ UNCHANGED <<saved_searches, search_runs, notifications>>
                          /\ results' = <<>>
                          /\ reply' = "Failed to run saved search"
    /\ listed' = <<>>
    /\ UNCHANGED <<listings, matchVars, callVars, now, users, dispatcherVars>>

\* ----------------------------------------------------------- listing tools
\* create_listing: insert with active: true, expires_at 30 days from now,
\* created_at DEFAULT NOW(), the skills lower-cased
create_listing(u, params) ==
    /\ Len(listings) < MaxStored
    /\ listings' = Append(listings,
           [user_id |-> u, type |-> params.type, active |-> TRUE,
            expires_at |-> now + ListingDays, created_at |-> now,
            title |-> params.title, description |-> params.description,
            skills |-> lowerSkills(params.skills), rate_min |-> params.rate_min,
            rate_max |-> params.rate_max, remote |-> params.remote,
            location |-> params.location])
    /\ reply' = "success"
    /\ results' = <<>>
    /\ listed' = <<>>
    /\ UNCHANGED <<matchVars, callVars, now, users, notifications, searchVars,
                   dispatcherVars>>

\* (mutant) .eq('id', listing_id) without .eq('user_id', user.id)
AnyOwners(u, l) == l \in DOMAIN listings

\* .eq('id', params.listing_id).eq('user_id', user.id): the row exists and is
\* the caller's
OwnListing(u, l) == l \in DOMAIN listings /\ listings[l].user_id = u

\* renew_listing: .update({ expires_at: now + 30 days, active: true })
\* .eq('id').eq('user_id').select().single(). With no row updated .single()
\* answers an error, which is thrown: 'Failed to renew listing'.
renew_listing(u, l) ==
    /\ IF OwnListing(u, l)
          THEN /\ listings' = [listings EXCEPT ![l].expires_at = now + ListingDays,
                                               ![l].active = TRUE]
               /\ reply' = "success"
          ELSE /\ UNCHANGED listings
               /\ reply' = "Failed to renew listing"
    /\ results' = <<>>
    /\ listed' = <<>>
    /\ UNCHANGED <<matchVars, callVars, now, users, notifications, searchVars,
                   dispatcherVars>>

\* deactivate_listing: .update({ active: false }).eq('id').eq('user_id'). An
\* update that matches no row is not an error: the tool reports success.
deactivate_listing(u, l) ==
    /\ listings' = IF OwnListing(u, l)
                      THEN [listings EXCEPT ![l].active = FALSE]
                      ELSE listings
    /\ reply' = "success"
    /\ results' = <<>>
    /\ listed' = <<>>
    /\ UNCHANGED <<matchVars, callVars, now, users, notifications, searchVars,
                   dispatcherVars>>

\* ------------------------------------------------------------ send_message
\* [user.id, params.recipient_id].sort()
participantIds(u, v) == IF u <= v THEN <<u, v>> ELSE <<v, u>>

\* .contains('participant_ids', participantIds).single(): the id of the
\* conversation holding both users, 0 when .single() has no row to give
existingConv(ids) ==
    LET holding == {k \in DOMAIN conversations :
                       \A i \in DOMAIN ids :
                           \E j \in DOMAIN conversations[k].participant_ids :
                               conversations[k].participant_ids[j] = ids[i]}
    IN  IF Cardinality(holding) = 1 THEN CHOOSE k \in holding : TRUE ELSE 0

\* lines 441-448: `existingConv` is looked up
FindConversation(c, u, v) ==
    /\ send[c].pc = "idle"
    /\ \A d \in 1..(c - 1) : send[d].pc # "idle"
    /\ u # v
    /\ send' = [send EXCEPT ![c] =
                   [pc |-> IF existingConv(participantIds(u, v)) = 0
                              THEN "create" ELSE "message",
                    sender_id |-> u, recipient_id |-> v,
                    conversation_id |-> existingConv(participantIds(u, v)),
                    result |-> "none"]]
    /\ UNCHANGED <<conversations, messages, checks, reply, listed, listingVars,
                   matchVars, now, users, notifications, searchVars, dispatcherVars>>

\* (mutant) a conversations table without the constraint
NoConstraint(ids) == TRUE

\* CONSTRAINT unique_participants UNIQUE (participant_ids)
unique_participants(ids) ==
    \A k \in DOMAIN conversations : conversations[k].participant_ids # ids

\* lines 452-465: no conversation was found, one is inserted; a convError is
\* thrown and the call answers 'Failed to send message'
CreateConversation(c) ==
    /\ send[c].pc = "create"
    /\ LET ids == participantIds(send[c].sender_id, send[c].recipient_id)
       IN  IF unique_participants(ids)
              THEN /\ conversations' = Append(conversations,
                          [participant_ids |-> ids, last_message_at |-> now])
                   /\ send' = [send EXCEPT ![c].pc = "message",
                                           ![c].conversation_id = Len(conversations) + 1]
              ELSE /\ UNCHANGED conversations
                   /\ send' = [send EXCEPT ![c].pc = "done", ![c].result = "error"]
    /\ UNCHANGED <<messages, checks, reply, listed, listingVars, matchVars, now, users,
                   notifications, searchVars, dispatcherVars>>

\* lines 468-476: the message is inserted, and with it the row of the trigger
\* notify_on_new_message; a msgError is thrown
InsertMessage(c, msgOk) ==
    /\ send[c].pc = "message"
    /\ IF msgOk
          THEN /\ messages' = Append(messages,
                      [conversation_id |-> send[c].conversation_id,
                       sender_id |-> send[c].sender_id,
                       recipient_id |-> send[c].recipient_id, read |-> FALSE])
               /\ notifications' = Append(notifications,
                      NewNotification(send[c].recipient_id, "message_received",
                                      NULL, NULL))
               /\ send' = [send EXCEPT ![c].pc = "touch"]
          ELSE /\ UNCHANGED <<messages, notifications>>
               /\ send' = [send EXCEPT ![c].pc = "done", ![c].result = "error"]
    /\ UNCHANGED <<conversations, checks, reply, listed, listingVars, matchVars, now,
                   users, searchVars, dispatcherVars>>

\* lines 479-489: last_message_at is updated, its result not looked at, and
\* the call answers success
TouchConversation(c) ==
    /\ send[c].pc = "touch"
    /\ conversations' = [conversations EXCEPT
                            ![send[c].conversation_id].last_message_at = now]
    /\ send' = [send EXCEPT ![c].pc = "done", ![c].result = "success"]
    /\ UNCHANGED <<messages, checks, reply, listed, listingVars, matchVars, now, users,
                   notifications, searchVars, dispatcherVars>>

\* -------------------------------------------------- check_expiring_listings
\* lines 115-126: the rows the SELECT of the statement produces from what is
\* committed when the statement starts
Expiring ==
    {l \in DOMAIN listings :
        /\ listings[l].active
        /\ listings[l].expires_at # NULL
        /\ listings[l].expires_at >= now
        /\ listings[l].expires_at <= now + ExpiringDays
        /\ ~\E n \in DOMAIN notifications :
              /\ notifications[n].user_id = listings[l].user_id
              /\ notifications[n].type = "listing_expiring"
              /\ notifications[n].listing_id = l
              /\ notifications[n].created_at > now - ExpiringDays}

\* The statement starts: it reads the listings and the notifications committed
\* so far. Rows a statement in progress elsewhere will insert are not among
\* them (READ COMMITTED).
SelectExpiring(i) ==
    /\ checks[i].pc = "idle"
    /\ \A j \in 1..(i - 1) : checks[j].pc # "idle"
    /\ checks' = [checks EXCEPT ![i] = [pc |-> "insert", started |-> now,
                                        rows |-> Expiring]]
    /\ UNCHANGED <<conversations, messages, send, reply, listed, listingVars, matchVars,
                   now, users, notifications, searchVars, dispatcherVars>>

\* the rows of the statement in id order
RECURSIVE ExpiringRows(_, _)
ExpiringRows(ids, at) ==
    IF ids = {} THEN <<>>
    ELSE LET l == CHOOSE a \in ids : \A b \in ids : a <= b
         IN  <<[NewNotification(listings[l].user_id, "listing_expiring", NULL, l)
                   EXCEPT !.created_at = at]>>
             \o ExpiringRows(ids \ {l}, at)

\* The statement ends: its rows are inserted, created_at DEFAULT NOW() being
\* the time its transaction started. No constraint of the table refuses them.
InsertExpiring(i) ==
    /\ checks[i].pc = "insert"
    /\ notifications' = notifications \o ExpiringRows(checks[i].rows, checks[i].started)
    /\ checks' = [checks EXCEPT ![i].pc = "done"]
    /\ UNCHANGED <<conversations, messages, send, reply, listed, listingVars, matchVars,
                   now, users, searchVars, dispatcherVars>>

\* the clock of the days in which listings come to expire
DayPasses ==
    /\ now < MaxDay
    /\ now' = now + 1
    /\ UNCHANGED <<listingVars, matchVars, toolVars, users, notifications, searchVars,
                   dispatcherVars>>

\* ------------------------------------------- send-notifications (Deno.serve)
\* (mutant) a fetch that skips the rows another invocation in progress holds
PendingIdsUnclaimed ==
    {n \in 1..Len(notifications) :
        /\ ~notifications[n].email_sent
        /\ \A q \in DOMAIN pc :
              pc[q] \in {"users", "loop", "mark"} =>
                  \A i \in DOMAIN batch[q] : batch[q][i] # n}

PendingIds == {n \in 1..Len(notifications) : ~notifications[n].email_sent}


\* the pending rows by ascending created_at, when no two of them have the
\* same created_at
OldestFirst ==
    [i \in 1..Cardinality(PendingIds) |->
        CHOOSE n \in PendingIds :
            Cardinality({m \in PendingIds :
                notifications[m].created_at < notifications[n].created_at}) = i - 1]

\* .eq('email_sent', false).order('created_at', { ascending: true }).limit(50):
\* the results the store may return. Rows with equal created_at come in either
\* order; the limit keeps the oldest.
PendingBatches ==
    IF \A n, m \in PendingIds :
          n # m => notifications[n].created_at # notifications[m].created_at
       THEN {Limit(OldestFirst, BatchLimit)}
       ELSE {b \in [1..Min(Cardinality(PendingIds), BatchLimit) -> PendingIds] :
                /\ \A i, j \in DOMAIN b : i < j =>
                      /\ b[i] # b[j]
                      /\ notifications[b[i]].created_at <= notifications[b[j]].created_at
                /\ \A n \in PendingIds : (\A i \in DOMAIN b : b[i] # n) =>
                      \A i \in DOMAIN b :
                          notifications[b[i]].created_at <= notifications[n].created_at}

\* userIds = [...new Set(notifications.map(n => n.user_id))]
UserIdsOf(b) == {notifications[b[i]].user_id : i \in DOMAIN b}

\* new Map((users || []).map(u => [u.id, u])) over .in('id', userIds)
FetchedUserMap(b) == [u \in UserIdsOf(b) |-> users[u]]

\* (mutant) `!user` in place of `!user?.email`
HasEmailRowOnly(map, u) == u \in DOMAIN map

\* !user?.email
HasEmail(map, u) == u \in DOMAIN map /\ map[u] # NoEmail

Running(r) == pc[r] \in {"users", "loop", "mark"}

\* the notification of the current loop iteration
Current(r) == batch[r][idx[r]]

ErrorResponse == [status |-> 500, sent |-> 0, errors |-> <<>>]

\* lines 44-60: a POST arrives; fetch the pending rows
FetchPending(r) ==
    /\ pc[r] = "idle"
    /\ \A q \in 1..(r - 1) : pc[q] # "idle"
    /\ \/ \* fetchError: throw, caught at line 126
          /\ batch' = [batch EXCEPT ![r] = <<>>]
          /\ response' = [response EXCEPT ![r] = ErrorResponse]
          /\ pc' = [pc EXCEPT ![r] = "done"]
       \/ \E b \in PendingBatches :
          /\ batch' = [batch EXCEPT ![r] = b]
          /\ IF b = <<>>
                THEN /\ response' = [response EXCEPT ![r] =
                                        [status |-> 200, sent |-> 0, errors |-> <<>>]]
                     /\ pc' = [pc EXCEPT ![r] = "done"]
                ELSE /\ response' = [response EXCEPT ![r] = NoResponse]
                     /\ pc' = [pc EXCEPT ![r] = "users"]
    /\ UNCHANGED <<listingVars, matchVars, toolVars, now, users, notifications, searchVars, userMap, idx, sent,
                   errors, calls, delivered>>

\* lines 62-77: fetch the recipients, build userMap, sent = 0, errors = []
FetchUsers(r) ==
    /\ pc[r] = "users"
    /\ \/ \* usersError: throw, caught at line 126
          /\ response' = [response EXCEPT ![r] = ErrorResponse]
          /\ pc' = [pc EXCEPT ![r] = "done"]
          /\ UNCHANGED userMap
       \/ /\ userMap' = [userMap EXCEPT ![r] = FetchedUserMap(batch[r])]
          /\ pc' = [pc EXCEPT ![r] = "loop"]
          /\ UNCHANGED response
    /\ UNCHANGED <<listingVars, matchVars, toolVars, now, users, notifications, searchVars, batch, idx, sent,
                   errors, calls, delivered>>

\* lines 80-85: the recipient has no address
LoopNoEmail(r) ==
    /\ pc[r] = "loop"
    /\ idx[r] <= Len(batch[r])
    /\ ~HasEmail(userMap[r], notifications[Current(r)].user_id)
    /\ errors' = [errors EXCEPT ![r] = Append(@,
                     [kind |-> "no_email",
                      who |-> ToString(notifications[Current(r)].user_id)])]
    /\ idx' = [idx EXCEPT ![r] = @ + 1]
    /\ UNCHANGED <<listingVars, matchVars, toolVars, now, users, notifications, searchVars, pc, batch, userMap,
                   sent, calls, response, delivered>>

\* what the transport can answer: a 2xx response, another response, or the
\* fetch rejects (network error, timeout)
TransportOutcomes == {"ok", "failed", "threw"}

\* (mutant) `if (emailResponse)` in place of `if (emailResponse.ok)`
ResponseAny(outcome) == TRUE

\* emailResponse.ok
ResponseOk(outcome) == outcome = "ok"

\* (mutant) no inner try/catch: a rejected fetch reaches the outer catch and
\* the invocation ends with status 500
SendEmailAbortOnThrow(r, outcome) ==
    /\ pc[r] = "loop"
    /\ idx[r] <= Len(batch[r])
    /\ HasEmail(userMap[r], notifications[Current(r)].user_id)
    /\ calls' = [calls EXCEPT ![r] = Append(@,
                     [id |-> Current(r), outcome |-> outcome])]
    /\ delivered' = IF outcome = "ok"
                       THEN [delivered EXCEPT ![Current(r)] = @ + 1]
                       ELSE delivered
    /\ IF outcome = "threw"
          THEN /\ pc' = [pc EXCEPT ![r] = "done"]
               /\ response' = [response EXCEPT ![r] = ErrorResponse]
               /\ UNCHANGED <<errors, idx>>
          ELSE /\ UNCHANGED response
               /\ IF ResponseOk(outcome)
                     THEN /\ pc' = [pc EXCEPT ![r] = "mark"]
                          /\ UNCHANGED <<errors, idx>>
                     ELSE /\ errors' = [errors EXCEPT ![r] = Append(@,
                                [kind |-> outcome,
                                 who |-> userMap[r][notifications[Current(r)].user_id]])]
                          /\ idx' = [idx EXCEPT ![r] = @ + 1]
                          /\ UNCHANGED pc
    /\ UNCHANGED <<listingVars, matchVars, toolVars, now, users, notifications, searchVars, batch, userMap,
                   sent>>

\* (mutant) a failed delivery closes the notification instead of leaving it
\* pending for the next run
SendEmailGiveUp(r, outcome) ==
    /\ pc[r] = "loop"
    /\ idx[r] <= Len(batch[r])
    /\ HasEmail(userMap[r], notifications[Current(r)].user_id)
    /\ calls' = [calls EXCEPT ![r] = Append(@,
                     [id |-> Current(r), outcome |-> outcome])]
    /\ delivered' = IF outcome = "ok"
                       THEN [delivered EXCEPT ![Current(r)] = @ + 1]
                       ELSE delivered
    /\ IF outcome # "threw" /\ ResponseOk(outcome)
          THEN /\ pc' = [pc EXCEPT ![r] = "mark"]
               /\ UNCHANGED <<errors, idx, notifications>>
          ELSE /\ errors' = [errors EXCEPT ![r] = Append(@,
                                [kind |-> outcome,
                                 who |-> userMap[r][notifications[Current(r)].user_id]])]
               /\ idx' = [idx EXCEPT ![r] = @ + 1]
               /\ notifications' = [notifications EXCEPT
                                       ![Current(r)].email_sent = TRUE,
                                       ![Current(r)].sent_at = now]
               /\ UNCHANGED pc
    /\ UNCHANGED <<listingVars, matchVars, toolVars, now, users, searchVars, batch, userMap, sent, response>>

\* lines 87-102 and 109-115: hand the notification to the transport. A 2xx
\* answer means Resend accepted the email; any other answer, and a rejected
\* fetch, push one entry on errors and the loop goes on.
SendEmail(r, outcome) ==
    /\ pc[r] = "loop"
    /\ idx[r] <= Len(batch[r])
    /\ HasEmail(userMap[r], notifications[Current(r)].user_id)
    /\ calls' = [calls EXCEPT ![r] = Append(@,
                     [id |-> Current(r), outcome |-> outcome])]
    /\ delivered' = IF outcome = "ok"
                       THEN [delivered EXCEPT ![Current(r)] = @ + 1]
                       ELSE delivered
    /\ IF outcome # "threw" /\ ResponseOk(outcome)
          THEN /\ pc' = [pc EXCEPT ![r] = "mark"]
               /\ UNCHANGED <<errors, idx>>
          ELSE /\ errors' = [errors EXCEPT ![r] = Append(@,
                                [kind |-> outcome,
                                 who |-> userMap[r][notifications[Current(r)].user_id]])]
               /\ idx' = [idx EXCEPT ![r] = @ + 1]
               /\ UNCHANGED pc
    /\ UNCHANGED <<listingVars, matchVars, toolVars, now, users, notifications, searchVars, batch, userMap,
                   sent, response>>

\* (mutant) the update forgets sent_at
MarkedSentNoTimestamp(row) == [row EXCEPT !.email_sent = TRUE]

\* .update({ email_sent: true, sent_at: new Date().toISOString() }).eq('id', id)
MarkedSent(row) == [row EXCEPT !.email_sent = TRUE, !.sent_at = now]

\* lines 103-108: mark as sent, then sent++. The update's result is not looked
\* at: when the store answers with an error the row is unchanged and the loop
\* goes on as after a successful update.
MarkAsSent(r, updated) ==
    /\ pc[r] = "mark"
    /\ notifications' = IF updated
                           THEN [notifications EXCEPT ![Current(r)] = MarkedSent(@)]
                           ELSE notifications
    /\ sent' = [sent EXCEPT ![r] = @ + 1]
    /\ idx' = [idx EXCEPT ![r] = @ + 1]
    /\ pc' = [pc EXCEPT ![r] = "loop"]
    /\ UNCHANGED <<listingVars, matchVars, toolVars, now, users, searchVars, batch, userMap, errors, calls,
                   response, delivered>>

\* lines 118-125: the report
Report(r) == [status |-> 200, sent |-> sent[r], errors |-> errors[r]]

Respond(r) ==
    /\ pc[r] = "loop"
    /\ idx[r] > Len(batch[r])
    /\ response' = [response EXCEPT ![r] = Report(r)]
    /\ pc' = [pc EXCEPT ![r] = "done"]
    \* the invocation's locals end with it
    /\ batch' = [batch EXCEPT ![r] = <<>>]
    /\ userMap' = [userMap EXCEPT ![r] = <<>>]
    /\ idx' = [idx EXCEPT ![r] = 1]
    /\ sent' = [sent EXCEPT ![r] = 0]
    /\ errors' = [errors EXCEPT ![r] = <<>>]
    /\ calls' = [calls EXCEPT ![r] = <<>>]
    /\ UNCHANGED <<listingVars, matchVars, toolVars, now, users, notifications, searchVars, delivered>>

\* an invocation that starts while no other invocation is in progress
NoOtherRunning(r) == \A q \in Invocations \ {r} : ~Running(q)

FetchPendingSerial(r) == NoOtherRunning(r) /\ FetchPending(r)

\* the steps of an invocation when the store answers every query
FetchPendingAnswered(r) == FetchPendingSerial(r) /\ response'[r] # ErrorResponse

FetchUsersAnswered(r) == FetchUsers(r) /\ response'[r] # ErrorResponse

\* The schedule fires again: the next POST is served by a fresh call of the
\* handler.
NextInvocation(r) ==
    /\ pc[r] = "done"
    /\ pc' = [pc EXCEPT ![r] = "idle"]
    /\ response' = [response EXCEPT ![r] = NoResponse]
    /\ UNCHANGED <<listingVars, matchVars, toolVars, now, users, notifications,
                   searchVars, batch, userMap, idx, sent, errors, calls, delivered>>

\* ------------------------------------------------- match (edge function)
\* const queryWords = query.toLowerCase().split(/\s+/).filter((w) => w.length > 2)
queryWords(q) ==
    SelectSeq(split(toLowerCase(q)), LAMBDA w : Len(w) > 2)

\* (mutant) a haystack of title and description only
titleAndDescription(listing) ==
    toLowerCase(listing.title \o <<" ">> \o listing.description)

\* `${listing.title} ${listing.description} ${listing.skills.join(' ')}`.toLowerCase()
searchText(listing) ==
    toLowerCase(listing.title \o <<" ">> \o listing.description \o <<" ">>
                \o join(listing.skills, <<" ">>))

\* the words pushed to matchedWords: one push per word of queryWords found
\* in searchText
matchedWords(words, text) == SelectSeq(words, LAMBDA w : includes(text, w))

\* the skills for which queryWords.includes(skill.toLowerCase())
matchedSkills(words, listing) ==
    {k \in DOMAIN listing.skills :
        \E i \in DOMAIN words : words[i] = toLowerCase(listing.skills[k])}

\* Scores are in tenths: 0.2 is 2, 0.3 is 3, 1.0 is 10. The code adds 0.2 per
\* word first and 0.3 per skill after, and a matched skill is a matched word
\* too (searchText holds the skills); the doubles of the sums that can so be
\* formed compare with 0.1, with 1.0 and with each other as their tenths do.
TokenScore == 2
SkillScore == 3
MaxScore == 10
MinLexicalScore == 1
\* "Only include listings with score > 0.3" of the prompt
MinModelScore == 3

\* score += 0.2 per matched word, += 0.3 per matched skill, Math.min(score, 1.0)
score(words, listing) ==
    Min(TokenScore * Len(matchedWords(words, searchText(listing)))
          + SkillScore * Cardinality(matchedSkills(words, listing)),
        MaxScore)

MatchesPrefix == <<"M", "a", "t", "c", "h", "e", "s", ":", " ">>

\* matchedWords.length > 0 ? [`Matches: ${matchedWords.join(', ')}`] : []
reasons(words, listing) ==
    LET found == matchedWords(words, searchText(listing))
    IN  IF Len(found) > 0
           THEN <<MatchesPrefix \o join(found, <<",", " ">>)>>
           ELSE <<>>

\* const scored = listings.map(...)
scored(q, rows) ==
    LET words == queryWords(q)
    IN  [i \in DOMAIN rows |->
            [listing |-> rows[i].id, score |-> score(words, rows[i]),
             reasons |-> reasons(words, rows[i])]]

\* (mutant) a sort that leaves the list as it is
unsorted(ms) == ms

\* .sort((a, b) => b.score - a.score): descending by score, and stable, so
\* entries of equal score keep their order
sortByScore(ms) ==
    LET rank(i) == 1 + Cardinality({j \in DOMAIN ms :
                        \/ ms[j].score > ms[i].score
                        \/ ms[j].score = ms[i].score /\ j < i})
    IN  [r \in DOMAIN ms |-> ms[CHOOSE i \in DOMAIN ms : rank(i) = r]]

\* keywordMatch: scored.filter((m) => m.score > 0.1).sort(...).slice(0, 10)
keywordMatch(q, rows) ==
    Limit(sortByScore(SelectSeq(scored(q, rows),
                                LAMBDA m : m.score > MinLexicalScore)),
          TopK)

\* What api.anthropic.com can answer to the one request rankWithAI makes:
\*   network_error      fetch rejects
\*   non_ok             a response with !response.ok
\*   no_content         a body without a content array
\*   empty_content      a body whose content array is empty
\*   not_json           a text that JSON.parse rejects
\*   no_matches         a JSON object without a `matches` member
\*   matches_not_array  a `matches` member that has no .map
\*   matches            a `matches` array of { index, score, reasons }
AnswerKinds == {"network_error", "non_ok", "no_content", "empty_content",
                "not_json", "no_matches", "matches_not_array", "matches"}

\* const content = result.content[0]?.text || '{"matches":[]}';
\* const parsed = JSON.parse(content); const aiMatches = parsed.matches || []
aiMatches(ans) == IF ans.kind = "matches" THEN ans.matches ELSE <<>>

\* the statements of the try block that throw: fetch, result.content[0],
\* JSON.parse, aiMatches.map, and listings[m.index].id when listings[m.index]
\* is undefined
Throws(ans, rows) ==
    \/ ans.kind \in {"network_error", "no_content", "not_json", "matches_not_array"}
    \/ /\ ans.kind = "matches"
       /\ \E k \in DOMAIN ans.matches :
              ans.matches[k].index \notin 0..(Len(rows) - 1)

\* (mutant) a catch block that passes the exception on
CatchRethrow(q, rows) == Throw

\* catch (error) { console.error(...); return keywordMatch(q, listings); }
Catch(q, rows) == Return(keywordMatch(q, rows))

\* (mutant) an empty answer of the model handed to keywordMatch
MappedOrLexical(q, rows, ms) ==
    IF ms = <<>>
       THEN Return(keywordMatch(q, rows))
       ELSE Return([k \in DOMAIN ms |->
                [listing |-> rows[ms[k].index + 1].id, score |-> ms[k].score,
                 reasons |-> ms[k].reasons]])

\* return aiMatches.map((m) => ({ listing: { id: listings[m.index].id, ... },
\*                                score: m.score, reasons: m.reasons }))
Mapped(q, rows, ms) ==
    Return([k \in DOMAIN ms |->
        [listing |-> rows[ms[k].index + 1].id, score |-> ms[k].score,
         reasons |-> ms[k].reasons]])

rankWithAI(q, rows, ans) ==
    IF ~ANTHROPIC_API_KEY THEN Return(keywordMatch(q, rows))
    ELSE IF ans.kind = "non_ok" THEN Return(keywordMatch(q, rows))
    ELSE IF Throws(ans, rows) THEN Catch(q, rows)
    ELSE Mapped(q, rows, aiMatches(ans))

\* The rows the candidate fetch of the match function selects:
\* .eq('type', listingType).eq('active', true).neq('user_id', userId)
Candidates(u, t) ==
    {l \in DOMAIN listings :
        /\ listings[l].type = listingType(t)
        /\ listings[l].active
        /\ listings[l].user_id # u}

\* a row as select('*') returns it
Row(l) ==
    [id |-> l, user_id |-> listings[l].user_id, type |-> listings[l].type,
     active |-> listings[l].active, expires_at |-> listings[l].expires_at,
     created_at |-> listings[l].created_at, title |-> listings[l].title,
     description |-> listings[l].description, skills |-> listings[l].skills]

\* the lists of ids the candidate fetch can produce: the select has no
\* .order(), then .limit(50)
Fetched(u, t) == {Limit(o, CandidateLimit) : o \in Unordered(Candidates(u, t))}

\* The match request up to the call of rankWithAI: the listings are fetched;
\* a listingsError answers 500, no listing answers { matches: [] }.
MatchFetch(u, t, listingsOk) ==
    /\ mpc = "idle"
    /\ answer' = NoAnswer
    /\ matches' = Return(<<>>)
    /\ \E ids \in Fetched(u, t) :
          IF ~listingsOk
             THEN mpc' = "failed" /\ candidates' = <<>>
             ELSE IF ids = <<>>
                     THEN mpc' = "done" /\ candidates' = <<>>
                     ELSE /\ mpc' = "rank"
                          /\ candidates' = [i \in DOMAIN ids |-> Row(ids[i])]
    /\ UNCHANGED <<now, users, notifications, searchVars, dispatcherVars,
                   listingVars, toolVars, query, ANTHROPIC_API_KEY>>

\* a reason string of the model
Fit == <<"f", "i", "t">>

Entry(i, sc) == [index |-> i, score |-> sc, reasons |-> <<Fit>>]

Failed(kind) == [kind |-> kind, matches |-> <<>>]

Matches(ms) == [kind |-> "matches", matches |-> ms]

\* The answers of the model considered for n candidates: every kind of
\* failure, and `matches` arrays that are empty, below 0.3, above 1.0, out of
\* order, out of range in one entry, and longer than 10.
ModelAnswers(n) ==
    {Failed(k) : k \in AnswerKinds \ {"matches"}}
    \cup {Matches(<<>>)}
    \cup {Matches(<<Entry(i, sc)>>) : i \in {0 - 1, 0, n}, sc \in {2, 9, 15}}
    \cup {Matches(<<Entry(0, 5), Entry(n - 1, 9)>>),
          Matches(<<Entry(0, 9), Entry(n, 8)>>),
          Matches([k \in 1..(TopK + 1) |-> Entry(0, 9)])}

\* The match request from the call of rankWithAI on. Without a key no request
\* is made to the model. An exception of rankWithAI would reach the catch of
\* the handler, which answers 500.
MatchRank ==
    /\ mpc = "rank"
    /\ \E ans \in IF ANTHROPIC_API_KEY THEN ModelAnswers(Len(candidates))
                                      ELSE {NoAnswer} :
          LET returned == rankWithAI(query, candidates, ans)
          IN  /\ answer' = ans
              /\ matches' = returned
              /\ mpc' = IF returned.threw THEN "failed" ELSE "done"
    /\ UNCHANGED <<now, users, notifications, searchVars, dispatcherVars,
                   listingVars, toolVars, query, ANTHROPIC_API_KEY, candidates>>

\* ------------------------------------------------- inputs of the matching
\* title, description and skills of the listings stored
SeniorReactDeveloper ==
    [title |-> <<"S", "e", "n", "i", "o", "r", " ", "R", "e", "a", "c", "t", " ", "D", "e", "v", "e", "l", "o", "p", "e", "r">>, description |-> <<>>,
     skills |-> <<<<"r", "e", "a", "c", "t">>, <<"t", "y", "p", "e", "s", "c", "r", "i", "p", "t">>, <<"n", "o", "d", "e">>>>]

GoEngineer ==
    [title |-> <<"G", "o", " ", "e", "n", "g", "i", "n", "e", "e", "r">>, description |-> <<"B", "a", "c", "k", "e", "n", "d", " ", "s", "e", "r", "v", "i", "c", "e", "s">>, skills |-> <<<<"g", "o">>>>]

RemoteNodeDeveloper ==
    [title |-> <<"R", "e", "m", "o", "t", "e", " ", "N", "o", "d", "e", " ", "d", "e", "v", "e", "l", "o", "p", "e", "r">>, description |-> <<"R", "e", "a", "c", "t", " ", "a", "n", "d", " ", "T", "y", "p", "e", "S", "c", "r", "i", "p", "t">>,
     skills |-> <<<<"R", "e", "a", "c", "t">>, <<"n", "o", "d", "e">>, <<"t", "y", "p", "e", "s", "c", "r", "i", "p", "t">>>>]

ListingTexts == {SeniorReactDeveloper, GoEngineer, RemoteNodeDeveloper}

\* the `query` of the requests: never empty (an empty one is answered 400)
ReactDeveloperRemote ==
    <<"r", "e", "a", "c", "t", " ", "d", "e", "v", "e", "l", "o", "p", "e", "r", " ", "r", "e", "m", "o", "t", "e", " ", "$", "8", "0">>

Queries ==
    {ReactDeveloperRemote,
     <<"R", "e", "a", "c", "t", " ", " ", "r", "e", "a", "c", "t">>,
     <<"n", "o", "d", "e", " ", "t", "y", "p", "e", "s", "c", "r", "i", "p", "t", " ", "r", "e", "a", "c", "t", " ", "d", "e", "v", "e", "l", "o", "p", "e", "r">>,
     <<"g", "o">>}

\* created_at of the i-th row stored: before the clock of the model starts,
\* later rows later
CreatedAt(i) == i - (MaxListings + 1)

\* a row stored with no rate and no location; remote BOOLEAN DEFAULT true
Stored(i, text, u, ty, act, exp) ==
    [user_id |-> u, type |-> ty, active |-> act, expires_at |-> exp,
     created_at |-> CreatedAt(i), title |-> text.title,
     description |-> text.description, skills |-> text.skills,
     rate_min |-> NoRate, rate_max |-> NoRate, remote |-> TRUE,
     location |-> NoLocation]

\* Tables of up to MaxListings active job listings of user 1 without expiry,
\* their texts alternating between two of ListingTexts.
MatchTables ==
    {[i \in 1..n |-> Stored(i, IF i % 2 = 1 THEN a ELSE b, 1, "job", TRUE, NULL)] :
        n \in 0..MaxListings, a \in ListingTexts, b \in ListingTexts}

InitMatch ==
    /\ InitQueue
    /\ InitRequest
    /\ listings \in MatchTables
    /\ query \in Queries
    /\ ANTHROPIC_API_KEY \in BOOLEAN

\* expires_at: NULL or a time of the clock
Expiries == {NULL} \cup (1..MaxTime)

RowFlags == [active : BOOLEAN, expires_at : Expiries]

\* Tables of up to MaxStored job listings of user 1, of every active flag and
\* expiry.
StoredTables ==
    {[i \in 1..n |-> Stored(i, SeniorReactDeveloper, 1, "job",
                            f[i].active, f[i].expires_at)] :
        n \in 0..MaxStored, f \in [1..MaxStored -> RowFlags]}

InitListings ==
    /\ InitQueue
    /\ InitRequest
    /\ listings \in StoredTables
    /\ query = ReactDeveloperRemote
    /\ ANTHROPIC_API_KEY = FALSE

\* ---------------------------------------------- inputs of the saved searches
NYC == <<"N", "Y", "C">>

React == <<"R", "e", "a", "c", "t">>

\* a listing of user 1, created before the clock starts, without expiry
Offered(ty, text, rates, rem, loc) ==
    [Stored(1, text, 1, ty, TRUE, NULL) EXCEPT
        !.rate_min = rates.rate_min, !.rate_max = rates.rate_max,
        !.remote = rem, !.location = loc]

OfferedTables ==
    {<<Offered(ty, text, rates, rem, loc)>> :
        ty \in ListingTypes, text \in {SeniorReactDeveloper, GoEngineer},
        rates \in {r \in [rate_min : {NoRate, 0, 1}, rate_max : {NoRate, 0, 3}] :
                       r.rate_min = 0 <=> r.rate_max = 0},
        rem \in BOOLEAN, loc \in {NoLocation, NYC}}

\* params of save_search: every combination of set and unset filters
SearchParams ==
    [search_type : SearchTypes, skills_filter : {<<>>, <<React>>},
     rate_min : {NoRate, 0, 2, 4}, rate_max : {NoRate, 0, 2},
     remote_only : BOOLEAN, location : {NoLocation, toLowerCase(NYC)}]

InitSaved ==
    /\ InitQueue
    /\ InitRequest
    /\ listings \in OfferedTables
    /\ query = <<>>
    /\ ANTHROPIC_API_KEY = FALSE

\* params of create_listing: a job posting with no rate and no location
Posting(text) ==
    [type |-> "job", title |-> text.title, description |-> text.description,
     skills |-> text.skills, rate_min |-> NoRate, rate_max |-> NoRate,
     remote |-> TRUE, location |-> NoLocation]

\* expires_at of the listings watched for their expiry: none, within the days
\* of the clock, and more than 7 days after its last day
ExpiryDates == {NULL, ExpiringDays + 1, MaxDay, MaxDay + ExpiringDays + 1}

\* Tables of up to MaxStored job listings of user 1, of every active flag and
\* expiry date.
ExpiryTables ==
    {[i \in 1..n |-> Stored(i, SeniorReactDeveloper, 1, "job",
                            f[i].active, f[i].expires_at)] :
        n \in 0..MaxStored,
        f \in [1..MaxStored -> [active : BOOLEAN, expires_at : ExpiryDates]]}

InitExpiry ==
    /\ InitQueue
    /\ InitRequest
    /\ listings \in ExpiryTables
    /\ query = <<>>
    /\ ANTHROPIC_API_KEY = FALSE

\* A queue of `stuck` notifications of user 1, who has no address, and a
\* newer one of user 2, who has.
Backlog(stuck) ==
    [n \in 1..(stuck + 1) |->
        [NewNotification(IF n <= stuck THEN 1 ELSE 2, "new_match", 1, 1)
            EXCEPT !.created_at = n - (BatchLimit + 1)]]

InitBacklog ==
    /\ InitTools
    /\ InitRequest
    /\ now = 1
    /\ users = [u \in Users |-> IF u = 1 THEN NoEmail ELSE "a@x"]
    /\ notifications \in {Backlog(BatchLimit - 1), Backlog(BatchLimit)}
    /\ saved_searches = <<>>
    /\ search_runs = [s \in SearchIds |-> 0]
    /\ pc = [r \in Invocations |-> "idle"]
    /\ batch = [r \in Invocations |-> <<>>]
    /\ userMap = [r \in Invocations |-> <<>>]
    /\ idx = [r \in Invocations |-> 1]
    /\ sent = [r \in Invocations |-> 0]
    /\ errors = [r \in Invocations |-> <<>>]
    /\ calls = [r \in Invocations |-> <<>>]
    /\ response = [r \in Invocations |-> NoResponse]
    /\ delivered = [n \in 1..(BatchLimit + 1) |-> 0]
    /\ listings = <<>>
    /\ query = <<>>
    /\ ANTHROPIC_API_KEY = FALSE

\* the first search saved
save_one_search(u, params) == saved_searches = <<>> /\ save_search(u, params)

\* ------------------------------------------------------------ specifications
Environment ==
    \/ Tick
    \/ \E u \in Users, e \in Emails : handle_new_user(u, e)
    \/ \E u \in Users, l \in ListingIds : InsertNotification(u, "new_match", 1, l)

DispatcherSteps ==
    \/ \E r \in Invocations : FetchUsers(r)
    \/ \E r \in Invocations : LoopNoEmail(r)
    \/ \E r \in Invocations, o \in TransportOutcomes : SendEmail(r, o)
    \/ \E r \in Invocations, ok \in BOOLEAN : MarkAsSent(r, ok)
    \/ \E r \in Invocations : Respond(r)

\* invocations of send-notifications may overlap
Next ==
    \/ Environment
    \/ \E r \in Invocations : FetchPending(r)
    \/ DispatcherSteps

Spec == Init /\ [][Next]_vars

\* invocations of send-notifications run one at a time
NextSerial ==
    \/ Environment
    \/ \E r \in Invocations : FetchPendingSerial(r)
    \/ DispatcherSteps

SpecSerial == Init /\ [][NextSerial]_vars

\* saved searches being saved, run and deleted
NextSearch ==
    \/ Tick
    \/ \E u \in Users : save_search(u, NoFilters)
    \/ \E u \in Users : get_saved_searches(u)
    \/ \E u \in Users, s \in SearchIds : delete_saved_search(u, s)
    \/ \E u \in Users, s \in SearchIds, ok \in BOOLEAN : run_saved_search(u, s, ok)

SpecSearch == Init /\ [][NextSearch]_vars

\* match requests over a stored set of listings
NextMatch ==
    \/ \E u \in Users, t \in SearchTypes, ok \in BOOLEAN : MatchFetch(u, t, ok)
    \/ MatchRank

SpecMatch == InitMatch /\ [][NextMatch]_vars

\* the three searches over a stored set of listings, as time passes
NextListings ==
    \/ Tick
    \/ \E u \in Users, t \in SearchTypes, ok \in BOOLEAN : MatchFetch(u, t, ok)
    \/ MatchRank
    \/ \E u \in Users, t \in SearchTypes, ok \in BOOLEAN : search_listings(u, t, ok)
    \/ \E u \in Users : save_search(u, NoFilters)
    \/ \E u \in Users, s \in SearchIds, ok \in BOOLEAN : run_saved_search(u, s, ok)

SpecListings == InitListings /\ [][NextListings]_vars

\* one saved search of any filters, run over a stored listing
NextSaved ==
    \/ \E u \in Users, p \in SearchParams : save_one_search(u, p)
    \/ \E u \in Users, s \in SearchIds, ok \in BOOLEAN : run_saved_search(u, s, ok)

SpecSaved == InitSaved /\ [][NextSaved]_vars

\* The dispatcher invoked again and again, one invocation at a time, over a
\* queue with a backlog; the store answers every query and the transport
\* accepts every email. Every step that can be taken is taken in the end: the
\* schedule keeps firing and an invocation runs to its end.
NextBacklog ==
    \/ \E r \in Invocations : FetchPendingAnswered(r)
    \/ \E r \in Invocations : FetchUsersAnswered(r)
    \/ \E r \in Invocations : LoopNoEmail(r)
    \/ \E r \in Invocations : SendEmail(r, "ok")
    \/ \E r \in Invocations : MarkAsSent(r, TRUE)
    \/ \E r \in Invocations : Respond(r)
    \/ \E r \in Invocations : NextInvocation(r)

SpecBacklog == InitBacklog /\ [][NextBacklog]_vars /\ WF_vars(NextBacklog)

\* listings created, renewed and deactivated as time passes
NextOwner ==
    \/ Tick
    \/ \E u \in Users : create_listing(u, Posting(RemoteNodeDeveloper))
    \/ \E u \in Users, l \in 1..MaxStored : renew_listing(u, l)
    \/ \E u \in Users, l \in 1..MaxStored : deactivate_listing(u, l)

SpecOwner == Init /\ [][NextOwner]_vars

\* calls of send_message, their steps interleaved
NextMessages ==
    \/ \E c \in Calls, u \in Users, v \in Users : FindConversation(c, u, v)
    \/ \E c \in Calls : CreateConversation(c)
    \/ \E c \in Calls, ok \in BOOLEAN : InsertMessage(c, ok)
    \/ \E c \in Calls : TouchConversation(c)

SpecMessages == Init /\ [][NextMessages]_vars

\* calls of check_expiring_listings, overlapping or not, as the days pass
NextExpiry ==
    \/ DayPasses
    \/ \E i \in Checks : SelectExpiring(i)
    \/ \E i \in Checks : InsertExpiring(i)

SpecExpiry == InitExpiry /\ [][NextExpiry]_vars

\* ------------------------------------------------------------------ claims
Range(seq) == {seq[i] : i \in DOMAIN seq}

Pending(n) == ~notifications[n].email_sent

OkCalls(cs) == {k \in DOMAIN cs : cs[k].outcome = "ok"}

BadCalls(cs) == {k \in DOMAIN cs : cs[k].outcome # "ok"}

\* the invocation in slot r takes the step that starts its loop over a batch
Fetches(r) == pc[r] = "idle" /\ pc'[r] = "users"

\* the invocation in slot r takes the step that returns its report
Returns(r) == pc[r] = "loop" /\ pc'[r] = "done"

\* the recipient of the k-th fetched notification had an address when fetched
AddressKnown(r, k) ==
    LET u == notifications[batch[r][k]].user_id
    IN  u \in DOMAIN userMap[r] /\ userMap[r][u] # NoEmail

\* C1: two attempts to create a new_match notification with the same
\* (user_id, saved_query_id, listing_id) leave exactly one such row.
C1_UniqueNewMatch ==
    \A i, j \in DOMAIN notifications :
        ( /\ notifications[i].type = "new_match"
          /\ notifications[j].type = "new_match"
          /\ notifications[i].user_id = notifications[j].user_id
          /\ notifications[i].saved_query_id = notifications[j].saved_query_id
          /\ notifications[i].listing_id = notifications[j].listing_id ) => i = j

C3_SentOnlyAfterTransportOk ==
    [][\A n \in DOMAIN notifications :
          (~notifications[n].email_sent /\ notifications'[n].email_sent) =>
              \E r \in Invocations :
                  /\ pc[r] = "mark" /\ pc'[r] = "loop"
                  /\ Current(r) = n
                  /\ calls[r] # <<>>
                  /\ calls[r][Len(calls[r])] = [id |-> n, outcome |-> "ok"]
                  /\ delivered[n] >= 1]_vars

C3_Witness ==
    \E n \in DOMAIN notifications :
        notifications[n].email_sent /\ delivered[n] = 1

\* C4: with invocations running one at a time, no notification gets more than
\* one successful transport call, whatever fails in between.
C4_AtMostOneDelivery == \A n \in DOMAIN delivered : delivered[n] <= 1

\* C5: the pending fetch takes no account of the rows another invocation in
\* progress has fetched: every row still pending is fetched again.
C5_FetchIsUnguarded ==
    [][\A r \in Invocations : Fetches(r) =>
          \A q \in Invocations \ {r}, n \in DOMAIN notifications :
              ( /\ Running(q)
                /\ n \in Range(batch[q])
                /\ Pending(n)
                /\ Cardinality({m \in DOMAIN notifications : Pending(m)}) <= BatchLimit )
                  => n \in Range(batch'[r])]_vars

\* two overlapping invocations have both had a success answer from the
\* transport for the same notification, and neither has marked it yet
C5_Witness ==
    \E r, q \in Invocations :
        /\ r # q
        /\ pc[r] = "mark" /\ pc[q] = "mark"
        /\ Current(r) = Current(q)
        /\ delivered[Current(r)] = 2
        /\ Pending(Current(r))

\* C6: when every recipient of the batch has an address, the report has sent =
\* number of transport successes and one error per failure, and afterwards the
\* failed notifications are pending and the successful ones delivered.
C6_ReportMatchesOutcomes ==
    [][\A r \in Invocations :
          (Returns(r) /\ \A k \in DOMAIN batch[r] : AddressKnown(r, k)) =>
              /\ response'[r].sent = Cardinality(OkCalls(calls[r]))
              /\ Len(response'[r].errors) = Cardinality(BadCalls(calls[r]))
              /\ \A k \in BadCalls(calls[r]) :
                    ~notifications'[calls[r][k].id].email_sent
              /\ \A k \in OkCalls(calls[r]) :
                    notifications'[calls[r][k].id].email_sent]_vars

\* C7: once in its loop an invocation ends only by returning its report, after
\* every fetched notification was examined and every one whose recipient has an
\* address was handed to the transport, whatever the transport answered.
C7_FailureDoesNotAbort ==
    [][\A r \in Invocations :
          /\ pc[r] \in {"loop", "mark"} =>
                \/ pc'[r] \in {"loop", "mark"}
                \/ pc'[r] = "done" /\ response'[r].status = 200
          /\ Returns(r) =>
                /\ idx[r] = Len(batch[r]) + 1
                /\ response'[r].sent + Len(response'[r].errors) = Len(batch[r])
                /\ \A k \in DOMAIN batch[r] : AddressKnown(r, k) =>
                      \E c \in DOMAIN calls[r] : calls[r][c].id = batch[r][k]]_vars

\* a report is due after a failed delivery was followed by another delivery
C7_Witness ==
    \E r \in Invocations :
        /\ pc[r] = "loop"
        /\ idx[r] > Len(batch[r])
        /\ Len(calls[r]) >= 2
        /\ calls[r][1].outcome # "ok"
        /\ calls[r][2].outcome = "ok"

\* C8: a failed delivery writes nothing to the notification, which stays
\* pending; every later fetch takes every pending notification again, however
\* often it failed, and hands it to the transport if its recipient has an address.
C8_FailedStaysPendingAndIsRetried ==
    [][\A r \in Invocations :
          /\ ( /\ Len(calls'[r]) = Len(calls[r]) + 1
               /\ calls'[r][Len(calls'[r])].outcome # "ok" ) =>
                 LET n == calls'[r][Len(calls'[r])].id
                 IN  /\ ~notifications'[n].email_sent
                     /\ notifications'[n].sent_at = NULL
                     /\ pc'[r] = "loop"
          /\ Fetches(r) =>
                \A n \in DOMAIN notifications :
                    ( /\ Pending(n)
                      /\ Cardinality({m \in DOMAIN notifications : Pending(m)})
                            <= BatchLimit ) => n \in Range(batch'[r])
          /\ Returns(r) =>
                \A k \in DOMAIN batch[r] : AddressKnown(r, k) =>
                    \E c \in DOMAIN calls[r] : calls[r][c].id = batch[r][k]]_vars

\* the only notification failed in a finished invocation and has been handed
\* to the transport again by the next one
C8_Witness ==
    \E r, q \in Invocations :
        /\ r # q
        /\ Len(notifications) = 1
        /\ pc[q] = "done"
        /\ response[q].errors # <<>>
        /\ response[q].errors[1].kind \in {"failed", "threw"}
        /\ Running(r)
        /\ calls[r] # <<>>
        /\ calls[r][1].id = 1

\* C9: for a recipient without an address the iteration pushes one error, calls
\* no transport, writes nothing and goes on to the next notification; each
\* invocation reads the addresses afresh, so an address gained later is used.
C9_NoAddressSkipsAndContinues ==
    [][\A r \in Invocations :
          /\ ( /\ pc[r] = "loop"
               /\ idx[r] <= Len(batch[r])
               /\ userMap[r][notifications[Current(r)].user_id] = NoEmail
               /\ (idx'[r] # idx[r] \/ pc'[r] # pc[r]) ) =>
                 /\ errors'[r] = Append(errors[r],
                       [kind |-> "no_email",
                        who |-> ToString(notifications[Current(r)].user_id)])
                 /\ calls' = calls
                 /\ delivered' = delivered
                 /\ notifications' = notifications
                 /\ sent' = sent
                 /\ idx'[r] = idx[r] + 1
                 /\ pc'[r] = "loop"
          /\ (pc[r] = "users" /\ pc'[r] = "loop") =>
                \A k \in DOMAIN batch[r] :
                    userMap'[r][notifications[batch[r][k]].user_id]
                        = users[notifications[batch[r][k]].user_id]]_vars

\* the only notification was skipped for want of an address in a finished
\* invocation, and the next one has handed it to the transport
C9_Witness ==
    \E r, q \in Invocations :
        /\ r # q
        /\ Len(notifications) = 1
        /\ pc[q] = "done"
        /\ response[q].errors = <<[kind |-> "no_email",
                                   who |-> ToString(notifications[1].user_id)]>>
        /\ Running(r)
        /\ calls[r] # <<>>
        /\ calls[r][1].id = 1

\* C10: sent_at is set exactly when email_sent is true, and a notification
\* with email_sent true keeps it and gets no further transport call.
C10_DeliveredIsTerminal ==
    [][\A n \in DOMAIN notifications' :
          /\ (notifications'[n].sent_at # NULL) <=> notifications'[n].email_sent
          /\ (n \in DOMAIN notifications /\ notifications[n].email_sent) =>
                /\ notifications'[n].email_sent
                /\ notifications'[n].sent_at = notifications[n].sent_at
                /\ delivered'[n] = delivered[n]]_vars

\* the first invocation delivered the notification and the second, run after
\* it, has returned without sending anything
C10_Witness ==
    \E n \in DOMAIN notifications :
        /\ notifications[n].email_sent
        /\ notifications[n].sent_at # NULL
        /\ delivered[n] = 1
        /\ pc[1] = "done" /\ response[1].status = 200 /\ response[1].sent = 1
        /\ pc[2] = "done" /\ response[2].status = 200 /\ response[2].sent = 0

\* ------------------------------------------------------- claims: matching
\* rankWithAI has been called on a non-empty candidate set and has ended
Ranked == mpc \in {"done", "failed"} /\ candidates # <<>>

\* ... and the model was asked
Asked == Ranked /\ ANTHROPIC_API_KEY

\* ... and the list returned is the one keywordMatch computed (no key)
RankedLexically == Ranked /\ ~ANTHROPIC_API_KEY

\* the answers that are no successful answer of the model
ModelFailed(ans) == ans.kind \in AnswerKinds \ {"matches"}

InRange(m) == m.index \in 0..(Len(candidates) - 1)

SortedByScore(ms) == \A i, j \in DOMAIN ms : i < j => ms[i].score >= ms[j].score

\* C11: whenever the model call fails (network error, non-success response,
\* or a response that is not of the expected structure), rankWithAI returns
\* exactly the list keywordMatch returns for the same query and listings.
C11_FailureReturnsLexical ==
    Asked /\ ModelFailed(answer)
        => matches = Return(keywordMatch(query, candidates))

\* C12: whatever the outcome of the model call (no key, network error,
\* non-success status, unparseable body, malformed matches), rankWithAI
\* returns a list and raises nothing to the handler.
C12_NeverRaises == Ranked => ~matches.threw /\ mpc = "done"

C12_Witness ==
    /\ Asked
    /\ answer.kind = "matches_not_array"
    /\ matches = Return(keywordMatch(query, candidates))
    /\ matches.value # <<>>

\* C13: when the model answers with an entry whose index is out of range,
\* that entry alone is dropped and the in-range entries are returned with the
\* score and reasons of the model.
C13_OutOfRangeDropped ==
    Asked /\ answer.kind = "matches" /\ (\E k \in DOMAIN answer.matches :
                                            ~InRange(answer.matches[k]))
        => matches = Mapped(query, candidates, SelectSeq(answer.matches, InRange))

\* C14: when the model answers with zero matches for a non-empty candidate
\* set, rankWithAI returns the empty list, whatever keywordMatch would return.
C14_EmptyAnswerAccepted ==
    Asked /\ answer = Matches(<<>>) => matches = Return(<<>>)

C14_Witness ==
    /\ Asked
    /\ answer = Matches(<<>>)
    /\ matches = Return(<<>>)
    /\ keywordMatch(query, candidates) # <<>>

\* C15: whatever a successful answer of the model holds, the list rankWithAI
\* returns has every score within [0.0, 1.0] and above 0.3, is sorted by
\* score descending and has at most 10 entries.
C15_ModelOutputValidated ==
    Asked /\ answer.kind = "matches" /\ ~Throws(answer, candidates)
        => /\ \A k \in DOMAIN matches.value :
                 /\ matches.value[k].score >= 0
                 /\ matches.value[k].score <= MaxScore
                 /\ matches.value[k].score > MinModelScore
           /\ SortedByScore(matches.value)
           /\ Len(matches.value) <= TopK

\* C16: the list keywordMatch returns is sorted by score descending, every
\* score is greater than 0.1 and at most 1.0, and it has at most 10 entries.
C16_LexicalOutputBounded ==
    RankedLexically
        => /\ SortedByScore(matches.value)
           /\ \A k \in DOMAIN matches.value :
                 /\ matches.value[k].score > MinLexicalScore
                 /\ matches.value[k].score <= MaxScore
           /\ Len(matches.value) <= TopK

\* more than 10 candidates that score, fetched in an order that is not the
\* order of their scores
C16_Witness ==
    /\ RankedLexically
    /\ Len(candidates) > TopK
    /\ Len(matches.value) = TopK
    /\ \E i, j \in DOMAIN candidates :
          /\ i < j
          /\ score(queryWords(query), candidates[i])
                < score(queryWords(query), candidates[j])
    /\ matches.value[1].score > matches.value[TopK].score

\* the score of the claim: each distinct token found counts once
DistinctTokenScore(q, listing) ==
    LET words == queryWords(q)
        found == {words[i] : i \in {k \in DOMAIN words :
                                      includes(searchText(listing), words[k])}}
    IN  Min(TokenScore * Cardinality(found)
              + SkillScore * Cardinality(matchedSkills(words, listing)),
            MaxScore)

\* C17: the lexical score of a listing is min(1.0, 0.2 x the number of
\* distinct query tokens longer than 2 found in the haystack + 0.3 x the
\* number of skill tags equal to a query token); a token repeated in the
\* query counts once.
C17_ScoreCountsDistinctTokens ==
    RankedLexically
        => \A k \in DOMAIN matches.value :
              matches.value[k].score
                = DistinctTokenScore(query, listings[matches.value[k].listing])

\* the listing of the scenario is the only candidate of the query of the
\* scenario, and no key is configured
Scenario ==
    /\ RankedLexically
    /\ query = ReactDeveloperRemote
    /\ Len(candidates) = 1
    /\ candidates[1].title = SeniorReactDeveloper.title
    /\ candidates[1].skills = SeniorReactDeveloper.skills

MatchesReact == <<"M", "a", "t", "c", "h", "e", "s", ":", " ", "r", "e", "a", "c", "t">>

MatchesReactDeveloper == <<"M", "a", "t", "c", "h", "e", "s", ":", " ", "r", "e", "a", "c", "t", ",", " ", "d", "e", "v", "e", "l", "o", "p", "e", "r">>

\* C18 as stated: in the scenario the listing scores 0.2 + 0.3 = 0.5 with a
\* reason that includes "Matches: react".
C18_ScenarioScoresHalf ==
    Scenario
        => /\ Len(matches.value) = 1
           /\ matches.value[1].score = 5
           /\ \E r \in DOMAIN matches.value[1].reasons :
                 includes(matches.value[1].reasons[r], MatchesReact)

\* C18 (amended): in the scenario the listing scores 0.2 (react) + 0.2
\* (developer) + 0.3 (skill react) = 0.7 with the reason
\* "Matches: react, developer".
C18_ScenarioScore ==
    Scenario
        => /\ Len(matches.value) = 1
           /\ matches.value[1].score = 7
           /\ matches.value[1].reasons = <<MatchesReactDeveloper>>

C18_Witness ==
    /\ Scenario
    /\ matches.value[1].listing = candidates[1].id
    /\ matches.value[1].score = 2 * TokenScore + SkillScore

\* C19: in the ranked output, of two results of equal score the listing
\* created later comes first.
C19_TiesNewestFirst ==
    RankedLexically
        => \A i, j \in DOMAIN matches.value :
              i < j /\ matches.value[i].score = matches.value[j].score
                  => listings[matches.value[i].listing].created_at
                       >= listings[matches.value[j].listing].created_at

\* eligible for matching: active, and no expiry or an expiry after now
Eligible(row) == row.active /\ (row.expires_at = NULL \/ row.expires_at > now)

\* C20: every listing a search fetches (the match function for ranking,
\* search_listings, run_saved_search) is eligible at the time of the query.
C20_OnlyEligibleListings ==
    [][/\ candidates' # candidates
          => \A i \in DOMAIN candidates' : Eligible(candidates'[i])
       /\ results' # results
          => \A i \in DOMAIN results' : Eligible(listings[results'[i]])]_vars


\* the ranges [rate_min, rate_max] of a saved search and of a listing share a
\* rate; a missing bound leaves its side of the range open
RangesOverlap(search, row) ==
    /\ search.rate_min = NoRate \/ row.rate_max = NoRate
          \/ row.rate_max >= search.rate_min
    /\ search.rate_max = NoRate \/ row.rate_min = NoRate
          \/ row.rate_min <= search.rate_max

\* evaluatePredicate(savedQuery, listing)
evaluatePredicate(search, row) ==
    /\ row.type = listingType(search.search_type)
    /\ (search.rate_min = NoRate /\ search.rate_max = NoRate)
          \/ RangesOverlap(search, row)
    /\ ~search.remote_only \/ row.remote
    /\ search.location = NoLocation
          \/ includes(toLowerCase(row.location), toLowerCase(search.location))
    /\ search.skills_filter = <<>>
          \/ \E i \in DOMAIN row.skills : row.skills[i] \in Range(search.skills_filter)

\* C21: run_saved_search returns exactly the eligible listings of other users
\* that satisfy evaluatePredicate for the saved search (fewer than 20 exist),
\* whatever filters of the search are set, a rate bound of 0 and listings
\* without rate_min or rate_max included.
C21_SelectsByPredicate ==
    [][\A u \in Users, s \in SearchIds :
          (Owned(u, s) /\ run_saved_search(u, s, TRUE)) =>
              Range(results') =
                  {l \in DOMAIN listings :
                      /\ Eligible(listings[l])
                      /\ listings[l].user_id # u
                      /\ evaluatePredicate(saved_searches[s], listings[l])}]_vars


\* C22: a saved search has one cursor, last_checked_at. No step of save_search,
\* run_saved_search or delete_saved_search lowers it, and every value written
\* to it, at insertion or later, is the current time.
C22_CursorAdvances ==
    [][\A s \in DOMAIN saved_searches' :
          IF s \in DOMAIN saved_searches
             THEN /\ saved_searches'[s].last_checked_at
                        >= saved_searches[s].last_checked_at
                  /\ saved_searches'[s].last_checked_at
                        # saved_searches[s].last_checked_at
                        => saved_searches'[s].last_checked_at = now
             ELSE saved_searches'[s].last_checked_at = now]_vars

\* a saved search run after the clock moved on: its cursor is past its creation
C22_Witness ==
    \E s \in DOMAIN saved_searches :
        /\ search_runs[s] > 0
        /\ saved_searches[s].last_checked_at > saved_searches[s].created_at

\* C23: get_saved_searches called by a user lists only that user's searches;
\* run_saved_search and delete_saved_search called by a user change no saved
\* search of another user, and run_saved_search on the id of another user's
\* search answers 'Saved search not found' and returns no row.
C23_OwnSearchesOnly ==
    [][\A u \in Users, s \in SearchIds :
          /\ get_saved_searches(u) =>
                \A i \in DOMAIN listed' : saved_searches[listed'[i]].user_id = u
          /\ (delete_saved_search(u, s) \/ \E ok \in BOOLEAN : run_saved_search(u, s, ok)) =>
                \A t \in DOMAIN saved_searches :
                    saved_searches[t].user_id # u => saved_searches'[t] = saved_searches[t]
          /\ (/\ s \in DOMAIN saved_searches
              /\ saved_searches[s].user_id # u
              /\ \E ok \in BOOLEAN : run_saved_search(u, s, ok)) =>
                reply' = "Saved search not found" /\ results' = <<>>]_vars

\* every id is the id of a stored search, both users own one, and a call of
\* run_saved_search has been refused: it named the search of another user
C23_Witness ==
    /\ Len(saved_searches) = MaxSearches
    /\ \A u \in Users : \E s \in DOMAIN saved_searches : saved_searches[s].user_id = u
    /\ \A s \in DOMAIN saved_searches : saved_searches[s].active
    /\ reply = "Saved search not found"

\* C27: once delete_saved_search has succeeded on a saved search,
\* get_saved_searches does not list it, and run_saved_search on its id answers
\* 'Saved search not found', returns no row and leaves last_checked_at alone.
C27_DeletedIsGone ==
    [][\A u \in Users, s \in SearchIds :
          /\ get_saved_searches(u) =>
                \A i \in DOMAIN listed' : saved_searches[listed'[i]].active
          /\ (/\ Owned(u, s)
              /\ ~saved_searches[s].active
              /\ \E ok \in BOOLEAN : run_saved_search(u, s, ok)) =>
                /\ reply' = "Saved search not found"
                /\ results' = <<>>
                /\ saved_searches' = saved_searches]_vars


\* C26: the sent count an invocation reports is the number of notifications
\* of its batch whose email_sent became true while it ran, also when the
\* store answers the update after a successful transport call with an error.
C26_ReportedSentIsMarked ==
    [][\A r \in Invocations :
          Returns(r) =>
              response'[r].sent =
                  Cardinality({k \in DOMAIN batch[r] :
                                  notifications[batch[r][k]].email_sent})]_vars

\* the candidate a match of the lexical scorer is about
Candidate(m) == candidates[CHOOSE i \in DOMAIN candidates : candidates[i].id = m.listing]

\* C30: every result of keywordMatch has exactly one reason string, 'Matches: '
\* followed by tokens, and at least one token of the query found in the
\* haystack is in it; and every skill of a candidate equal to a query token is
\* a token found in the haystack of that candidate.
C30_OneReasonNamesAToken ==
    RankedLexically =>
        LET words == queryWords(query)
        IN  /\ \A k \in DOMAIN matches.value :
                  LET m == matches.value[k]
                  IN  /\ Len(m.reasons) = 1
                      /\ SubSeq(m.reasons[1], 1, Len(MatchesPrefix)) = MatchesPrefix
                      /\ \E w \in Range(words) :
                            /\ includes(searchText(Candidate(m)), w)
                            /\ includes(SubSeq(m.reasons[1], Len(MatchesPrefix) + 1,
                                                Len(m.reasons[1])), w)
            /\ \A i \in DOMAIN candidates :
                  \A k \in matchedSkills(words, candidates[i]) :
                      toLowerCase(candidates[i].skills[k])
                          \in Range(matchedWords(words, searchText(candidates[i])))

\* a result whose listing has a skill equal to a token of the query
C30_Witness ==
    /\ RankedLexically
    /\ \E k \in DOMAIN matches.value :
          /\ matchedSkills(queryWords(query), Candidate(matches.value[k])) # {}
          /\ Len(matches.value[k].reasons) = 1


ConversationsOf(u, v) ==
    {k \in DOMAIN conversations :
        {conversations[k].participant_ids[j] :
            j \in DOMAIN conversations[k].participant_ids} = {u, v}}

\* C28: whatever the interleaving of send_message calls between two users, in
\* either direction, there is at most one conversation row for the pair, and
\* every call that reported success has its message stored in that
\* conversation.
C28_OneConversationPerPair ==
    \A u \in Users, v \in Users :
        /\ Cardinality(ConversationsOf(u, v)) <= 1
        /\ Cardinality({k \in DOMAIN messages :
                           /\ messages[k].sender_id = u
                           /\ messages[k].recipient_id = v
                           /\ messages[k].conversation_id \in ConversationsOf(u, v)})
              >= Cardinality({c \in Calls :
                                 /\ send[c].result = "success"
                                 /\ send[c].sender_id = u
                                 /\ send[c].recipient_id = v})

\* two first messages in opposite directions, both sent before a conversation
\* existed: one call was refused by the constraint, the other succeeded
C28_Witness ==
    \E c \in Calls, d \in Calls :
        /\ send[c].pc = "done" /\ send[c].result = "error"
        /\ send[c].conversation_id = 0
        /\ send[d].result = "success"
        /\ send[d].sender_id = send[c].recipient_id
        /\ send[d].recipient_id = send[c].sender_id
        /\ Len(conversations) = 1

\* the listing_expiring rows of the notifications table
ExpiryNotices == {n \in DOMAIN notifications : notifications[n].type = "listing_expiring"}

\* C29: two listing_expiring notifications of the same owner and listing are
\* at least 7 days apart, whether the calls of check_expiring_listings follow
\* one another or overlap; and a listing that is inactive, has no expiry or
\* expires more than 7 days after the call gets none.
C29_OneExpiryNoticePerWindow ==
    /\ \A a \in ExpiryNotices, b \in ExpiryNotices :
          (/\ a # b
           /\ notifications[a].user_id = notifications[b].user_id
           /\ notifications[a].listing_id = notifications[b].listing_id
           /\ notifications[a].created_at <= notifications[b].created_at)
             => notifications[b].created_at - notifications[a].created_at >= ExpiringDays
    /\ \A n \in ExpiryNotices :
          LET l == listings[notifications[n].listing_id]
          IN  /\ l.active
              /\ l.expires_at # NULL
              /\ l.expires_at <= notifications[n].created_at + ExpiringDays


\* C25: with the dispatcher run again and again, one run at a time, and a
\* transport that accepts its email, every pending notification whose
\* recipient has an address is marked sent in the end, also when 50 older
\* notifications stay pending for ever and fill every batch.
C25_EventuallySent ==
    \A n \in 1..(BatchLimit + 1) :
        (/\ n \in DOMAIN notifications
         /\ ~notifications[n].email_sent
         /\ users[notifications[n].user_id] # NoEmail)
            ~> (n \in DOMAIN notifications /\ notifications[n].email_sent)

====
